---- MODULE Spec2Model ----
(***************************************************************************)
(* Entitlement engine of the streaming service: subscriptions, payments,   *)
(* the users' VIP flag and the content reads gated by it.                  *)
(*                                                                         *)
(* The relational store is modelled table by table: a table with a serial  *)
(* primary key is a sequence whose index is the row id.  Storage methods   *)
(* (server/storage, class DatabaseStorage) are operators from a database   *)
(* value to a database value; every route handler of server/routes.ts is   *)
(* one action that applies them and records the HTTP exchange in `http`.   *)
(* Timestamps are whole days since the service started.                    *)
(***************************************************************************)
EXTENDS Integers, Sequences, FiniteSets, Bags, TLC

VARIABLES users, subscriptions, payments, now, http,
          favorites, progress, calls

vars == <<users, subscriptions, payments, now, http, favorites, progress, calls>>

(***************************************************************************)
(* Bounds of the model.                                                    *)
(***************************************************************************)
MaxSubs == 2
MaxNow == 30

(***************************************************************************)
(* Values.                                                                 *)
(***************************************************************************)
\* SQL NULL / JS null of a text column or JSON field.
Null == "null"
\* A nullable timestamp column: NoDate is NULL, Date(d) is day d.
NoDate == {}
Date(d) == {d}

Users == {"u1", "u2"}
\* The unauthenticated requester (req.isAuthenticated() is false).
Anon == "anon"
Viewers == Users \cup {Anon}

\* Request inputs.
PlanIdInputs == {1, 4}
PaymentMethodInputs == {"wave"}
TxInputs == {"tx1", "tx2"}
IdInputs == 1 .. (MaxSubs + 1)
AdminExpiryInputs == {0, 30}
\* Days that pass between two requests.
TickSteps == {30}
\* Requests the server can be handling at the same time.
Requests == {"r1", "r2"}
\* Where the process can stop inside updatePaymentStatus: after the payment
\* row is written, or after the subscription row is written as well.
CrashPoints == {1, 2}

(***************************************************************************)
(* Seeded tables.                                                          *)
(***************************************************************************)
subscriptionPlans ==
  <<[id |-> 1, name |-> "Standard VIP", price |-> 5000, duration |-> 30],
    [id |-> 2, name |-> "Premium VIP", price |-> 9000, duration |-> 30],
    [id |-> 3, name |-> "Famille VIP", price |-> 15000, duration |-> 30]>>

\* Rows of the content table: two seeded titles and one title an
\* administrator added before its video was uploaded.
content ==
  <<[id |-> 1, title |-> "Nebula Odyssey", type |-> "movie",
     genres |-> {"Sci-Fi", "Adventure", "Drama"}, isExclusive |-> TRUE,
     videoUrl |-> "https://example.com/videos/nebula-odyssey"],
    [id |-> 2, title |-> "Starlight Empire", type |-> "movie",
     genres |-> {"Sci-Fi", "Action", "Adventure"}, isExclusive |-> FALSE,
     videoUrl |-> "https://example.com/videos/starlight-empire"],
    [id |-> 3, title |-> "Orbital Drift", type |-> "series",
     genres |-> {"Mystery"}, isExclusive |-> TRUE, videoUrl |-> ""]>>

ContentIdInputs == DOMAIN content
TypeInputs == {"movie", "series"}
\* Search words; none of them occurs in a title.
QueryInputs == {"Drama", "mystery", "western"}

\* Content ids sent to POST /api/favorites: 0 is a missing contentId, 4 is
\* the id of no content row.
FavoriteContentInputs == {0, 1, 2, 4}
\* The :id parameter of DELETE /api/favorites/:id, as text.
IdParamInputs == {"1", "2", "2x", "abc"}
\* The value parseInt gives for text that starts with no digit.
NaN == -1

\* Bodies of POST /api/progress: the content id (4 is the id of no content
\* row) and the percentage (150 is no percentage).
ProgressContentInputs == {1, 4}
ProgressInputs == {40, 70, 150}

(***************************************************************************)
(* The database value the storage operators work on.                       *)
(***************************************************************************)
Db == [users |-> users, subscriptions |-> subscriptions, payments |-> payments]

\* JS `x || null` on a text value.
OrNull(s) == IF s = "" \/ s = Null THEN Null ELSE s

\* DatabaseStorage.updateUserVipStatus: vipExpiresAt is the optional Date
\* argument (NoDate when it is omitted).
updateUserVipStatus(db, userId, isVip, vipExpiresAt) ==
  IF userId \in DOMAIN db.users
  THEN [db EXCEPT !.users[userId] = [isVip |-> isVip, vipExpiresAt |-> vipExpiresAt]]
  ELSE db

\* getSubscriptionPlanById answering the first plan for an unknown id.
getSubscriptionPlanById_fallback(id) ==
  IF id \in DOMAIN subscriptionPlans THEN {subscriptionPlans[id]} ELSE {subscriptionPlans[1]}

getSubscriptionPlanById(id) ==
  IF id \in DOMAIN subscriptionPlans THEN {subscriptionPlans[id]} ELSE {}

\* DatabaseStorage.getUserSubscription: the rows the query selects; the
\* caller takes the first one the database returns, in no defined order.
getUserSubscription(db, userId) ==
  {i \in DOMAIN db.subscriptions :
     db.subscriptions[i].userId = userId /\ db.subscriptions[i].isActive}

\* createSubscription without its `if (subscription.isActive)` guard.
createSubscription_unguarded(db, subscription) ==
  updateUserVipStatus([db EXCEPT !.subscriptions = Append(@, subscription)],
                      subscription.userId, TRUE, Date(subscription.endDate))

\* createSubscription storing every subscription as active.
createSubscription_activeAtCheckout(db, subscription) ==
  updateUserVipStatus([db EXCEPT !.subscriptions =
                                    Append(@, [subscription EXCEPT !.isActive = TRUE])],
                      subscription.userId, TRUE, Date(subscription.endDate))

createSubscription(db, subscription) ==
  LET d1 == [db EXCEPT !.subscriptions = Append(@, subscription)]
  IN IF subscription.isActive
     THEN updateUserVipStatus(d1, subscription.userId, TRUE, Date(subscription.endDate))
     ELSE d1

createPayment(db, payment) ==
  [db EXCEPT !.payments = Append(@, payment)]

\* cancelSubscription that lets VIP access run until the end date.
cancelSubscription_grace(db, id) ==
  IF id \in DOMAIN db.subscriptions
  THEN LET d1 == [db EXCEPT !.subscriptions[id].isActive = FALSE,
                            !.subscriptions[id].autoRenew = FALSE]
       IN IF db.subscriptions[id].endDate > now
          THEN d1
          ELSE updateUserVipStatus(d1, db.subscriptions[id].userId, FALSE, NoDate)
  ELSE db

cancelSubscription(db, id) ==
  IF id \in DOMAIN db.subscriptions
  THEN LET d1 == [db EXCEPT !.subscriptions[id].isActive = FALSE,
                            !.subscriptions[id].autoRenew = FALSE]
       IN updateUserVipStatus(d1, db.subscriptions[id].userId, FALSE, NoDate)
  ELSE db

\* updatePaymentStatus that grants VIP without passing the end date on.
updatePaymentStatus_noExpiry(db, id, status, transactionId) ==
  IF id \notin DOMAIN db.payments
  THEN db
  ELSE LET d1 == [db EXCEPT !.payments[id].status = status,
                            !.payments[id].transactionId =
                               IF transactionId # "" THEN transactionId ELSE @]
           sid == d1.payments[id].subscriptionId
       IN IF status = "completed" /\ sid # 0 /\ sid \in DOMAIN d1.subscriptions
          THEN updateUserVipStatus([d1 EXCEPT !.subscriptions[sid].isActive = TRUE],
                                   d1.payments[id].userId, TRUE, NoDate)
          ELSE d1

\* updatePaymentStatus that adds the plan's days to a running VIP period
\* on every completion.
updatePaymentStatus_stacking(db, id, status, transactionId) ==
  IF id \notin DOMAIN db.payments
  THEN db
  ELSE LET d1 == [db EXCEPT !.payments[id].status = status,
                            !.payments[id].transactionId =
                               IF transactionId # "" THEN transactionId ELSE @]
           sid == d1.payments[id].subscriptionId
       IN IF status = "completed" /\ sid # 0 /\ sid \in DOMAIN d1.subscriptions
          THEN LET sub == d1.subscriptions[sid]
                   old == d1.users[d1.payments[id].userId]
                   until == IF old.isVip /\ old.vipExpiresAt # NoDate
                            THEN {d + (sub.endDate - sub.startDate) : d \in old.vipExpiresAt}
                            ELSE Date(sub.endDate)
               IN updateUserVipStatus([d1 EXCEPT !.subscriptions[sid].isActive = TRUE],
                                      d1.payments[id].userId, TRUE, until)
          ELSE d1

\* DatabaseStorage.updatePaymentStatus, the part that cannot throw: the row
\* update and, for a completed payment with a subscription, the activation.
\* updatePaymentStatus cancelling the subscription of a refunded payment.
updatePaymentStatus_refundCancels(db, id, status, transactionId) ==
  IF id \notin DOMAIN db.payments
  THEN db
  ELSE LET d1 == [db EXCEPT !.payments[id].status = status,
                            !.payments[id].transactionId =
                               IF transactionId # "" THEN transactionId ELSE @]
           updatedPayment == d1.payments[id]
           sid == updatedPayment.subscriptionId
       IN IF status = "completed" /\ sid # 0 /\ sid \in DOMAIN d1.subscriptions
          THEN LET d2 == [d1 EXCEPT !.subscriptions[sid].isActive = TRUE]
               IN updateUserVipStatus(d2, updatedPayment.userId, TRUE,
                                      Date(d1.subscriptions[sid].endDate))
          ELSE IF status = "refunded"
          THEN cancelSubscription(d1, sid)
          ELSE d1

updatePaymentStatus(db, id, status, transactionId) ==
  IF id \notin DOMAIN db.payments
  THEN db
  ELSE LET d1 == [db EXCEPT !.payments[id].status = status,
                            !.payments[id].transactionId =
                               IF transactionId # "" THEN transactionId ELSE @]
           updatedPayment == d1.payments[id]
           sid == updatedPayment.subscriptionId
       IN IF status = "completed" /\ sid # 0 /\ sid \in DOMAIN d1.subscriptions
          THEN LET d2 == [d1 EXCEPT !.subscriptions[sid].isActive = TRUE]
               IN updateUserVipStatus(d2, updatedPayment.userId, TRUE,
                                      Date(d1.subscriptions[sid].endDate))
          ELSE d1

\* updatePaymentStatus reads updatedPayment.subscriptionId of a row that
\* does not exist when the id is unknown and the status is 'completed'.
updatePaymentStatusThrows(db, id, status) ==
  id \notin DOMAIN db.payments /\ status = "completed"

\* DatabaseStorage.updatePaymentStatus stopped after its first k writes
\* (1: the payment row, 2: the subscription row, 3: the user row).
updatePaymentStatusPrefix(db, id, status, transactionId, k) ==
  IF id \notin DOMAIN db.payments
  THEN db
  ELSE LET d1 == [db EXCEPT !.payments[id].status = status,
                            !.payments[id].transactionId =
                               IF transactionId # "" THEN transactionId ELSE @]
           updatedPayment == d1.payments[id]
           sid == updatedPayment.subscriptionId
       IN IF status = "completed" /\ sid # 0 /\ sid \in DOMAIN d1.subscriptions /\ k >= 2
          THEN LET d2 == [d1 EXCEPT !.subscriptions[sid].isActive = TRUE]
               IN IF k >= 3
                  THEN updateUserVipStatus(d2, updatedPayment.userId, TRUE,
                                           Date(d1.subscriptions[sid].endDate))
                  ELSE d2
          ELSE d1

mapContentFromDb(dbContent) ==
  [id |-> dbContent.id, title |-> dbContent.title, type |-> dbContent.type,
   genres |-> dbContent.genres, isExclusive |-> dbContent.isExclusive,
   videoUrl |-> OrNull(dbContent.videoUrl)]

getContentById(id) ==
  IF id \in DOMAIN content THEN {mapContentFromDb(content[id])} ELSE {}

getAllContent == {mapContentFromDb(content[i]) : i \in DOMAIN content}

getContentByType(type) ==
  {mapContentFromDb(content[i]) : i \in {j \in DOMAIN content : content[j].type = type}}

\* The rows a query with LIMIT n and no defined order can return.
Limit(rows, n) ==
  IF Cardinality(rows) <= n THEN {rows}
  ELSE {S \in SUBSET rows : Cardinality(S) = n}

FeaturedLimit == 10
TrendingLimit == 6
ExclusiveLimit == 8

\* DatabaseStorage.getFeaturedContent: the titles it can return.
getFeaturedContent ==
  LET exclusive == {i \in DOMAIN content : content[i].isExclusive}
  IN IF exclusive = {}
     THEN {mapContentFromDb(content[i]) : i \in {j \in DOMAIN content : j = 1}}
     ELSE UNION {{mapContentFromDb(content[i]) : i \in S} :
                   S \in Limit(exclusive, FeaturedLimit)}

\* DatabaseStorage.getTrendingContent: the result sets it can return.
getTrendingContent ==
  {{mapContentFromDb(content[i]) : i \in S} : S \in Limit(DOMAIN content, TrendingLimit)}

\* DatabaseStorage.getExclusiveContent: the result sets it can return.
getExclusiveContent ==
  {{mapContentFromDb(content[i]) : i \in S} :
     S \in Limit({i \in DOMAIN content : content[i].isExclusive}, ExclusiveLimit)}

\* LOWER() on the words of the model.
Lower(w) ==
  CASE w = "Sci-Fi" -> "sci-fi" [] w = "Adventure" -> "adventure"
    [] w = "Drama" -> "drama" [] w = "Action" -> "action"
    [] w = "Mystery" -> "mystery" [] OTHER -> w

\* DatabaseStorage.searchContent, for a query that is one whole word: the
\* titles one of whose genres matches it regardless of case.
searchContent(query) ==
  {mapContentFromDb(content[i]) :
     i \in {j \in DOMAIN content :
              \E g \in content[j].genres : Lower(g) = Lower(query)}}

(***************************************************************************)
(* Favorites: the table is a bag of rows; its primary key is                *)
(* (userId, contentId) and contentId references content.id.                 *)
(***************************************************************************)
\* The rows `where userId = ... and contentId = ...` selects.
favoriteRows(favs, userId, contentId) ==
  {f \in BagToSet(favs) : f.userId = userId /\ f.contentId = contentId}

\* A favorites table that has no primary key.
favoritesPrimaryKey_none(favs, row) == FALSE

\* The primary key rejects the row: a row with its pair is in the table.
favoritesPrimaryKey(favs, row) ==
  favoriteRows(favs, row.userId, row.contentId) # {}

\* The foreign key rejects the row: no content row has its contentId.
favoritesForeignKey(row) == row.contentId \notin DOMAIN content

\* db.insert(schema.favorites) throws.
insertFavoriteThrows(favs, row) ==
  favoritesPrimaryKey(favs, row) \/ favoritesForeignKey(row)

insertFavorite(favs, row) == favs (+) SetToBag({row})

\* removeFromFavorites deleting every favorite of the user.
removeFromFavorites_allOfUser(favs, userId, contentId) ==
  [f \in {g \in BagToSet(favs) : g.userId # userId} |-> favs[f]]

removeFromFavorites(favs, userId, contentId) ==
  [f \in BagToSet(favs) \ favoriteRows(favs, userId, contentId) |-> favs[f]]

\* getUserFavorites without its `where userId = ...`.
getUserFavorites_allUsers(favs, userId) ==
  LET contentIds == {f.contentId : f \in BagToSet(favs)}
  IN SetToBag({mapContentFromDb(content[i]) :
                 i \in {j \in DOMAIN content : j \in contentIds}})

\* DatabaseStorage.getUserFavorites: the content rows whose id is in the
\* user's favorites, each row of the content table once.
getUserFavorites(favs, userId) ==
  LET contentIds == {f.contentId : f \in {g \in BagToSet(favs) : g.userId = userId}}
  IN IF contentIds = {}
     THEN EmptyBag
     ELSE SetToBag({mapContentFromDb(content[i]) :
                      i \in {j \in DOMAIN content : j \in contentIds}})

\* parseInt on the texts of IdParamInputs: leading digits are the number,
\* what follows them is dropped.
parseInt(s) ==
  CASE s = "1" -> 1
    [] s = "2" -> 2
    [] s = "2x" -> 2
    [] OTHER -> NaN

(***************************************************************************)
(* Progress: the table is the sequence of its rows, a row's serial id is    *)
(* its index; contentId references content.id and no constraint is on the  *)
(* pair (userId, contentId).                                               *)
(***************************************************************************)
\* The ids of the rows `where userId = ... and contentId = ...` selects.
progressRows(prog, userId, contentId) ==
  {i \in DOMAIN prog : prog[i].userId = userId /\ prog[i].contentId = contentId}

\* `const [existingProgress] = await db.select()...`: the id of the first
\* row the database returns, in no defined order; 0 when it returns none.
existingProgress(prog, userId, contentId) ==
  IF progressRows(prog, userId, contentId) = {}
  THEN {0}
  ELSE progressRows(prog, userId, contentId)

\* The foreign key rejects the row: no content row has its contentId.
progressForeignKey(progressData) == progressData.contentId \notin DOMAIN content

\* The update branch keeping the larger percentage.
updateProgress_keepMax(prog, id, progressData, timestamp) ==
  [prog EXCEPT ![id] = [id |-> id, userId |-> progressData.userId,
                        contentId |-> progressData.contentId,
                        progress |-> IF progressData.progress > prog[id].progress
                                     THEN progressData.progress
                                     ELSE prog[id].progress,
                        timestamp |-> timestamp]]

\* saveUserProgress, the update branch: `where id = existingProgress.id`.
updateProgress(prog, id, progressData, timestamp) ==
  [prog EXCEPT ![id] = [id |-> id, userId |-> progressData.userId,
                        contentId |-> progressData.contentId,
                        progress |-> progressData.progress,
                        timestamp |-> timestamp]]

\* saveUserProgress, the insert branch.
insertProgress(prog, progressData, timestamp) ==
  Append(prog, [id |-> Len(prog) + 1, userId |-> progressData.userId,
                contentId |-> progressData.contentId,
                progress |-> progressData.progress, timestamp |-> timestamp])

\* saveUserProgress after its select found `existing` (0: no row).
saveUserProgress(prog, existing, progressData, timestamp) ==
  IF existing # 0
  THEN updateProgress(prog, existing, progressData, timestamp)
  ELSE insertProgress(prog, progressData, timestamp)

\* The statement saveUserProgress issues throws.
saveUserProgressThrows(existing, progressData) ==
  progressForeignKey(progressData)

\* The row saveUserProgress returns.
savedProgress(prog, existing, progressData, timestamp) ==
  LET t == saveUserProgress(prog, existing, progressData, timestamp)
  IN IF existing # 0 THEN t[existing] ELSE t[Len(t)]

(***************************************************************************)
(* Request context.                                                        *)
(***************************************************************************)
isAuthenticated(viewer) == viewer \in Users

\* req.user: the user row of the session's user, loaded for each request.
reqUser(viewer) == users[viewer]

\* The condition of ensureVIP.
ensureVIP(viewer) == isAuthenticated(viewer) /\ reqUser(viewer).isVip

\* GET /api/content/:id, the response for a viewer.
contentResponse(id, viewer) ==
  IF getContentById(id) = {}
  THEN [status |-> 404, body |-> [message |-> "Content not found"]]
  ELSE LET c == CHOOSE x \in getContentById(id) : TRUE
       IN IF c.isExclusive /\ (~isAuthenticated(viewer) \/ ~reqUser(viewer).isVip)
          THEN [status |-> 200,
                body |-> [id |-> c.id, title |-> c.title, type |-> c.type,
                          genres |-> c.genres, isExclusive |-> c.isExclusive,
                          videoUrl |-> Null, vipRequired |-> TRUE]]
          ELSE [status |-> 200, body |-> c]

(***************************************************************************)
(* Initial state: no subscription, no payment, nobody is VIP.              *)
(***************************************************************************)
Init ==
  /\ users = [u \in Users |-> [isVip |-> FALSE, vipExpiresAt |-> NoDate]]
  /\ subscriptions = <<>>
  /\ payments = <<>>
  /\ now = 0
  /\ http = [status |-> 0]
  /\ favorites = EmptyBag
  /\ progress = <<>>
  /\ calls = [r \in Requests |-> [pc |-> "idle"]]

SetDb(d) ==
  /\ users' = d.users
  /\ subscriptions' = d.subscriptions
  /\ payments' = d.payments

(***************************************************************************)
(* Route handlers.  `http` is the response of the last request.            *)
(***************************************************************************)
\* POST /api/subscribe
Subscribe(u, planId, paymentMethod, autoRenew) ==
  /\ Len(subscriptions) < MaxSubs
  /\ UNCHANGED <<now, favorites, progress, calls>>
  /\ IF planId = 0
     THEN /\ http' = [status |-> 400, message |-> "Plan ID is required"]
          /\ UNCHANGED <<users, subscriptions, payments>>
     ELSE IF paymentMethod = ""
     THEN /\ http' = [status |-> 400, message |-> "Payment method is required"]
          /\ UNCHANGED <<users, subscriptions, payments>>
     ELSE IF getSubscriptionPlanById(planId) = {}
     THEN /\ http' = [status |-> 404, message |-> "Subscription plan not found"]
          /\ UNCHANGED <<users, subscriptions, payments>>
     ELSE LET plan == CHOOSE p \in getSubscriptionPlanById(planId) : TRUE
              d1 == createSubscription(Db,
                      [userId |-> u, planId |-> plan.id, startDate |-> now,
                       endDate |-> now + plan.duration, autoRenew |-> autoRenew,
                       isActive |-> FALSE])
              sid == Len(d1.subscriptions)
              d2 == createPayment(d1,
                      [userId |-> u, subscriptionId |-> sid, amount |-> plan.price,
                       currency |-> "XOF", paymentMethod |-> paymentMethod,
                       status |-> "pending", transactionId |-> Null])
          IN /\ SetDb(d2)
             /\ http' = [status |-> 201, subscription |-> sid,
                         payment |-> Len(d2.payments), plan |-> plan.id]

\* POST /api/payments/complete
CompletePayment(u, paymentId, transactionId) ==
  /\ UNCHANGED <<now, favorites, progress, calls>>
  /\ IF paymentId = 0
     THEN /\ http' = [status |-> 400, message |-> "Payment ID is required"]
          /\ UNCHANGED <<users, subscriptions, payments>>
     ELSE IF transactionId = ""
     THEN /\ http' = [status |-> 400, message |-> "Transaction ID is required"]
          /\ UNCHANGED <<users, subscriptions, payments>>
     ELSE LET d == updatePaymentStatus(Db, paymentId, "completed", transactionId)
          IN /\ SetDb(d)
             /\ IF updatePaymentStatusThrows(Db, paymentId, "completed")
                THEN http' = [status |-> 500, message |-> "TypeError"]
                ELSE IF d.payments[paymentId].subscriptionId # 0
                THEN IF getUserSubscription(d, u) = {}
                     THEN http' = [status |-> 200, payment |-> paymentId,
                                   subscription |-> 0]
                     ELSE \E s \in getUserSubscription(d, u) :
                            http' = [status |-> 200, payment |-> paymentId,
                                     subscription |-> s]
                ELSE http' = [status |-> 200, payment |-> paymentId]

\* POST /api/cancel-subscription
CancelSubscription(u, subscriptionId) ==
  /\ UNCHANGED <<now, favorites, progress, calls>>
  /\ IF subscriptionId = 0
     THEN /\ http' = [status |-> 400, message |-> "Subscription ID is required"]
          /\ UNCHANGED <<users, subscriptions, payments>>
     ELSE /\ SetDb(cancelSubscription(Db, subscriptionId))
          /\ http' = [status |-> 200,
                      message |-> "Subscription canceled successfully"]

\* POST /api/admin/user/vip, called by an administrator; expiresAt = 0 is an
\* omitted expiry.
AdminSetVip(userId, isVip, expiresAt) ==
  /\ UNCHANGED <<now, favorites, progress, calls>>
  /\ SetDb(updateUserVipStatus(Db, userId, isVip,
                               IF expiresAt # 0 THEN Date(expiresAt) ELSE NoDate))
  /\ http' = [status |-> 200, user |-> userId]

\* GET /api/content/:id
GetContent(viewer, id) ==
  /\ UNCHANGED <<users, subscriptions, payments, now, favorites, progress, calls>>
  /\ http' = contentResponse(id, viewer)

\* GET /api/content
GetAllContent(viewer) ==
  /\ UNCHANGED <<users, subscriptions, payments, now, favorites, progress, calls>>
  /\ http' = [status |-> 200, items |-> getAllContent]

\* GET /api/movies and GET /api/series
GetContentByType(viewer, type) ==
  /\ UNCHANGED <<users, subscriptions, payments, now, favorites, progress, calls>>
  /\ http' = [status |-> 200, items |-> getContentByType(type)]

\* GET /api/featured
GetFeatured(viewer) ==
  /\ UNCHANGED <<users, subscriptions, payments, now, favorites, progress, calls>>
  /\ \E c \in getFeaturedContent : http' = [status |-> 200, body |-> c]

\* GET /api/trending
GetTrending(viewer) ==
  /\ UNCHANGED <<users, subscriptions, payments, now, favorites, progress, calls>>
  /\ \E rows \in getTrendingContent : http' = [status |-> 200, items |-> rows]

\* GET /api/search?q=query
Search(viewer, query) ==
  /\ UNCHANGED <<users, subscriptions, payments, now, favorites, progress, calls>>
  /\ IF query = ""
     THEN http' = [status |-> 400, message |-> "Search query is required"]
     ELSE http' = [status |-> 200, items |-> searchContent(query)]

\* GET /api/exclusive-content, behind ensureVIP
GetExclusiveContent(viewer) ==
  /\ UNCHANGED <<users, subscriptions, payments, now, favorites, progress, calls>>
  /\ IF ensureVIP(viewer)
     THEN \E rows \in getExclusiveContent : http' = [status |-> 200, items |-> rows]
     ELSE http' = [status |-> 403,
                   message |-> "VIP subscription required to access this resource"]

\* storage.updatePaymentStatus(id, 'failed'): the payment provider reports
\* a failed payment.
FailPayment(paymentId) ==
  /\ UNCHANGED <<now, http, favorites, progress, calls>>
  /\ SetDb(updatePaymentStatus(Db, paymentId, "failed", ""))

\* storage.updatePaymentStatus(id, 'refunded'): the payment provider reports
\* a refund.
RefundPayment(paymentId) ==
  /\ UNCHANGED <<now, http, favorites, progress, calls>>
  /\ SetDb(updatePaymentStatus(Db, paymentId, "refunded", ""))

\* POST /api/payments/complete when the server process stops inside
\* updatePaymentStatus: the writes made so far stay, no response is sent.
CompletePaymentCrash(u, paymentId, transactionId, k) ==
  /\ paymentId # 0 /\ transactionId # ""
  /\ UNCHANGED <<now, favorites, progress, calls>>
  /\ SetDb(updatePaymentStatusPrefix(Db, paymentId, "completed", transactionId, k))
  /\ http' = [status |-> 0]

\* POST /api/favorites up to the select of addToFavorites; the request
\* then waits for its insert.
AddFavoriteSelect(r, u, contentId) ==
  /\ calls[r].pc = "idle"
  /\ UNCHANGED <<users, subscriptions, payments, now, favorites, progress>>
  /\ IF contentId = 0
     THEN /\ http' = [status |-> 400, message |-> "Content ID is required"]
          /\ UNCHANGED calls
     ELSE /\ calls' = [calls EXCEPT ![r] =
                         [pc |-> "addToFavorites", userId |-> u,
                          contentId |-> contentId,
                          existingFavorite |->
                             favoriteRows(favorites, u, contentId) # {}]]
          /\ UNCHANGED http

\* POST /api/favorites from the `if (!existingFavorite)` on.
AddFavoriteInsert(r) ==
  /\ calls[r].pc = "addToFavorites"
  /\ UNCHANGED <<users, subscriptions, payments, now, progress>>
  /\ calls' = [calls EXCEPT ![r] = [pc |-> "idle"]]
  /\ LET row == [userId |-> calls[r].userId, contentId |-> calls[r].contentId,
                 addedAt |-> now]
     IN IF calls[r].existingFavorite
        THEN /\ UNCHANGED favorites
             /\ http' = [status |-> 201, message |-> "Added to favorites"]
        ELSE IF insertFavoriteThrows(favorites, row)
             THEN /\ UNCHANGED favorites
                  /\ http' = [status |-> 500]
             ELSE /\ favorites' = insertFavorite(favorites, row)
                  /\ http' = [status |-> 201, message |-> "Added to favorites"]

\* DELETE /api/favorites/:id
RemoveFavorite(u, id) ==
  /\ UNCHANGED <<users, subscriptions, payments, now, progress, calls>>
  /\ IF parseInt(id) = NaN
     THEN /\ http' = [status |-> 400, message |-> "Invalid ID format"]
          /\ UNCHANGED favorites
     ELSE /\ favorites' = removeFromFavorites(favorites, u, parseInt(id))
          /\ http' = [status |-> 200, message |-> "Removed from favorites"]

\* GET /api/favorites
ListFavorites(u) ==
  /\ UNCHANGED <<users, subscriptions, payments, now, favorites, progress, calls>>
  /\ http' = [status |-> 200, items |-> getUserFavorites(favorites, u)]

\* POST /api/progress, one request at a time.
SaveProgress(u, contentId, value) ==
  /\ UNCHANGED <<users, subscriptions, payments, now, favorites, calls>>
  /\ LET progressData == [userId |-> u, contentId |-> contentId, progress |-> value]
     IN \E existing \in existingProgress(progress, u, contentId) :
          IF saveUserProgressThrows(existing, progressData)
          THEN /\ UNCHANGED progress
               /\ http' = [status |-> 500]
          ELSE /\ progress' = saveUserProgress(progress, existing, progressData, now)
               /\ http' = [status |-> 200,
                           body |-> savedProgress(progress, existing, progressData, now)]

\* POST /api/progress up to the select of saveUserProgress; the request
\* then waits for its update or insert.
SaveProgressSelect(r, u, contentId, value) ==
  /\ calls[r].pc = "idle"
  /\ UNCHANGED <<users, subscriptions, payments, now, http, favorites, progress>>
  /\ \E existing \in existingProgress(progress, u, contentId) :
        calls' = [calls EXCEPT ![r] =
                    [pc |-> "saveUserProgress",
                     progressData |-> [userId |-> u, contentId |-> contentId,
                                       progress |-> value],
                     existingProgress |-> existing]]

\* POST /api/progress from the `if (existingProgress)` on.
SaveProgressWrite(r) ==
  /\ calls[r].pc = "saveUserProgress"
  /\ UNCHANGED <<users, subscriptions, payments, now, favorites>>
  /\ calls' = [calls EXCEPT ![r] = [pc |-> "idle"]]
  /\ LET progressData == calls[r].progressData
         existing == calls[r].existingProgress
     IN IF saveUserProgressThrows(existing, progressData)
        THEN /\ UNCHANGED progress
             /\ http' = [status |-> 500]
        ELSE /\ progress' = saveUserProgress(progress, existing, progressData, now)
             /\ http' = [status |-> 200,
                         body |-> savedProgress(progress, existing, progressData, now)]

\* POST /api/payments/complete up to the first statement of
\* updatePaymentStatus, the update of the payment row; the request then
\* waits for the statements on the subscription and on the user.
CompletePaymentUpdate(r, u, paymentId, transactionId) ==
  /\ calls[r].pc = "idle"
  /\ UNCHANGED <<users, subscriptions, now, favorites, progress>>
  /\ IF paymentId = 0
     THEN /\ http' = [status |-> 400, message |-> "Payment ID is required"]
          /\ UNCHANGED <<payments, calls>>
     ELSE IF transactionId = ""
     THEN /\ http' = [status |-> 400, message |-> "Transaction ID is required"]
          /\ UNCHANGED <<payments, calls>>
     ELSE IF updatePaymentStatusThrows(Db, paymentId, "completed")
     THEN /\ http' = [status |-> 500, message |-> "TypeError"]
          /\ UNCHANGED <<payments, calls>>
     ELSE /\ payments' = updatePaymentStatusPrefix(Db, paymentId, "completed",
                                                  transactionId, 1).payments
          /\ calls' = [calls EXCEPT ![r] =
                         [pc |-> "activateSubscription", userId |-> u,
                          paymentId |-> paymentId]]
          /\ UNCHANGED http

\* updatePaymentStatus: the select and the update of the subscription row.
\* The select reads the row's id and endDate, which no statement changes.
CompletePaymentActivate(r) ==
  /\ calls[r].pc = "activateSubscription"
  /\ UNCHANGED <<users, payments, now, favorites, progress>>
  /\ LET updatedPayment == payments[calls[r].paymentId]
         sid == updatedPayment.subscriptionId
     IN IF sid # 0 /\ sid \in DOMAIN subscriptions
        THEN /\ subscriptions' = [subscriptions EXCEPT ![sid].isActive = TRUE]
             /\ calls' = [calls EXCEPT ![r].pc = "updateUserVipStatus"]
             /\ UNCHANGED http
        ELSE /\ UNCHANGED subscriptions
             /\ calls' = [calls EXCEPT ![r] = [pc |-> "idle"]]
             /\ http' = [status |-> 200, payment |-> calls[r].paymentId]

\* updatePaymentStatus: the update of the user row, and the response of
\* POST /api/payments/complete.
CompletePaymentGrantVip(r) ==
  /\ calls[r].pc = "updateUserVipStatus"
  /\ UNCHANGED <<subscriptions, payments, now, favorites, progress>>
  /\ calls' = [calls EXCEPT ![r] = [pc |-> "idle"]]
  /\ LET updatedPayment == payments[calls[r].paymentId]
         sid == updatedPayment.subscriptionId
         d == updateUserVipStatus(Db, updatedPayment.userId, TRUE,
                                  Date(subscriptions[sid].endDate))
     IN /\ users' = d.users
        /\ IF getUserSubscription(d, calls[r].userId) = {}
           THEN http' = [status |-> 200, payment |-> calls[r].paymentId,
                         subscription |-> 0]
           ELSE \E s \in getUserSubscription(d, calls[r].userId) :
                  http' = [status |-> 200, payment |-> calls[r].paymentId,
                           subscription |-> s]

\* POST /api/cancel-subscription up to the update of the subscription row;
\* the request then waits for the update of the user row.  The select
\* before the update reads the row's userId, which no statement changes.
CancelSubscriptionUpdate(r, u, subscriptionId) ==
  /\ calls[r].pc = "idle"
  /\ UNCHANGED <<users, payments, now, favorites, progress>>
  /\ IF subscriptionId = 0
     THEN /\ http' = [status |-> 400, message |-> "Subscription ID is required"]
          /\ UNCHANGED <<subscriptions, calls>>
     ELSE IF subscriptionId \notin DOMAIN subscriptions
     THEN /\ http' = [status |-> 200,
                      message |-> "Subscription canceled successfully"]
          /\ UNCHANGED <<subscriptions, calls>>
     ELSE /\ subscriptions' = [subscriptions EXCEPT
                                 ![subscriptionId].isActive = FALSE,
                                 ![subscriptionId].autoRenew = FALSE]
          /\ calls' = [calls EXCEPT ![r] =
                         [pc |-> "removeVip", subscriptionId |-> subscriptionId]]
          /\ UNCHANGED http

\* cancelSubscription: the update of the user row, and the response of
\* POST /api/cancel-subscription.
CancelSubscriptionRemoveVip(r) ==
  /\ calls[r].pc = "removeVip"
  /\ UNCHANGED <<subscriptions, payments, now, favorites, progress>>
  /\ calls' = [calls EXCEPT ![r] = [pc |-> "idle"]]
  /\ users' = updateUserVipStatus(Db, subscriptions[calls[r].subscriptionId].userId,
                                  FALSE, NoDate).users
  /\ http' = [status |-> 200, message |-> "Subscription canceled successfully"]

\* Time passes.
Tick ==
  /\ \E d \in TickSteps : now + d <= MaxNow /\ now' = now + d
  /\ UNCHANGED <<users, subscriptions, payments, http, favorites, progress, calls>>

(***************************************************************************)
(* Spec: the subscription life cycle (checkout, payment confirmation,      *)
(* cancellation) as time passes.                                           *)
(***************************************************************************)
Next ==
  \/ \E u \in Users, planId \in PlanIdInputs, pm \in PaymentMethodInputs,
        ar \in BOOLEAN : Subscribe(u, planId, pm, ar)
  \/ \E u \in Users, p \in IdInputs, tx \in TxInputs : CompletePayment(u, p, tx)
  \/ \E u \in Users, s \in IdInputs : CancelSubscription(u, s)
  \/ Tick

Spec == Init /\ [][Next]_vars

(***************************************************************************)
(* SpecService: the life cycle together with the administrator's VIP       *)
(* override and the content reads.                                         *)
(***************************************************************************)
NextService ==
  \/ Next
  \/ \E u \in Users, v \in BOOLEAN, e \in AdminExpiryInputs : AdminSetVip(u, v, e)
  \/ \E v \in Viewers, id \in ContentIdInputs : GetContent(v, id)
  \/ \E v \in Viewers : GetAllContent(v)
  \/ \E v \in Viewers, t \in TypeInputs : GetContentByType(v, t)
  \/ \E v \in Viewers : GetFeatured(v)
  \/ \E v \in Viewers : GetTrending(v)
  \/ \E v \in Viewers, q \in QueryInputs : Search(v, q)
  \/ \E v \in Viewers : GetExclusiveContent(v)

SpecService == Init /\ [][NextService]_vars

(***************************************************************************)
(* SpecPayments: the life cycle together with the payment provider's       *)
(* failure and refund reports.                                             *)
(***************************************************************************)
NextPayments ==
  \/ Next
  \/ \E p \in IdInputs : FailPayment(p)
  \/ \E p \in IdInputs : RefundPayment(p)

SpecPayments == Init /\ [][NextPayments]_vars

(***************************************************************************)
(* SpecRefund: checkout, payment confirmation, cancellation and the        *)
(* payment provider's refund reports, at one instant.                      *)
(***************************************************************************)
NextRefund ==
  \/ \E u \in Users, planId \in PlanIdInputs, pm \in PaymentMethodInputs,
        ar \in BOOLEAN : Subscribe(u, planId, pm, ar)
  \/ \E u \in Users, p \in IdInputs, tx \in TxInputs : CompletePayment(u, p, tx)
  \/ \E u \in Users, s \in IdInputs : CancelSubscription(u, s)
  \/ \E p \in IdInputs : RefundPayment(p)

SpecRefund == Init /\ [][NextRefund]_vars

(***************************************************************************)
(* SpecCrash: the life cycle on a server whose process can stop in the     *)
(* middle of a payment confirmation and be started again.                  *)
(***************************************************************************)
NextCrash ==
  \/ Next
  \/ \E u \in Users, p \in IdInputs, tx \in TxInputs, k \in CrashPoints :
       CompletePaymentCrash(u, p, tx, k)

SpecCrash == Init /\ [][NextCrash]_vars

(***************************************************************************)
(* SpecConcurrent: checkout, and two payment confirmation or cancellation  *)
(* requests in flight at a time, each running statement by statement.      *)
(***************************************************************************)
NextConcurrent ==
  \/ \E u \in Users, planId \in PlanIdInputs, pm \in PaymentMethodInputs,
        ar \in BOOLEAN : Subscribe(u, planId, pm, ar)
  \/ \E r \in Requests, u \in Users, p \in IdInputs, tx \in TxInputs :
        CompletePaymentUpdate(r, u, p, tx)
  \/ \E r \in Requests : CompletePaymentActivate(r)
  \/ \E r \in Requests : CompletePaymentGrantVip(r)
  \/ \E r \in Requests, u \in Users, s \in IdInputs :
        CancelSubscriptionUpdate(r, u, s)
  \/ \E r \in Requests : CancelSubscriptionRemoveVip(r)

SpecConcurrent == Init /\ [][NextConcurrent]_vars

(***************************************************************************)
(* SpecFavorites: the favorites routes, two POST /api/favorites requests    *)
(* in flight at a time.                                                     *)
(***************************************************************************)
NextFavorites ==
  \/ \E r \in Requests, u \in Users, c \in FavoriteContentInputs :
        AddFavoriteSelect(r, u, c)
  \/ \E r \in Requests : AddFavoriteInsert(r)
  \/ \E u \in Users, id \in IdParamInputs : RemoveFavorite(u, id)
  \/ \E u \in Users : ListFavorites(u)
  \/ Tick

SpecFavorites == Init /\ [][NextFavorites]_vars

(***************************************************************************)
(* SpecProgress: POST /api/progress, each request finished before the next *)
(* starts, as time passes.                                                 *)
(***************************************************************************)
NextProgress ==
  \/ \E u \in Users, c \in ProgressContentInputs, v \in ProgressInputs :
        SaveProgress(u, c, v)
  \/ Tick

SpecProgress == Init /\ [][NextProgress]_vars

(***************************************************************************)
(* SpecProgressConcurrent: two POST /api/progress requests in flight at a  *)
(* time.                                                                   *)
(***************************************************************************)
NextProgressConcurrent ==
  \/ \E r \in Requests, u \in Users, c \in ProgressContentInputs,
        v \in ProgressInputs : SaveProgressSelect(r, u, c, v)
  \/ \E r \in Requests : SaveProgressWrite(r)

SpecProgressConcurrent == Init /\ [][NextProgressConcurrent]_vars

(***************************************************************************)
(* Properties.                                                             *)
(***************************************************************************)

\* C1: a completePayment(p, tx) call on an existing payment of a
\* subscription leaves that subscription active, its user VIP until the
\* subscription's end date, and the payment completed with transaction tx.
C1_CompletePaymentActivates ==
  [][\A u \in Users, p \in IdInputs, tx \in TxInputs :
       (CompletePayment(u, p, tx) /\ p \in DOMAIN payments) =>
          LET sid == payments[p].subscriptionId
              owner == subscriptions[sid].userId
          IN /\ subscriptions'[sid].isActive
             /\ users'[owner].isVip
             /\ users'[owner].vipExpiresAt = Date(subscriptions'[sid].endDate)
             /\ payments'[p].status = "completed"
             /\ payments'[p].transactionId = tx]_vars

\* A completePayment call has just completed the payment of a subscription.
C1_Witness ==
  /\ http.status = 200
  /\ "payment" \in DOMAIN http
  /\ LET p == http.payment
         sid == payments[p].subscriptionId
     IN /\ payments[p].status = "completed"
        /\ payments[p].transactionId = "tx1"
        /\ subscriptions[sid].isActive
        /\ users[subscriptions[sid].userId].isVip
        /\ users[subscriptions[sid].userId].vipExpiresAt
             = Date(subscriptions[sid].endDate)

\* C2: subscribe with a known plan appends exactly one subscription, which
\* is inactive, and exactly one payment, which is pending and references
\* it; the existing rows and every user's VIP fields stay as they were.
C2_SubscribeCreatesInactive ==
  [][\A u \in Users, planId \in PlanIdInputs, pm \in PaymentMethodInputs,
        ar \in BOOLEAN :
       (Subscribe(u, planId, pm, ar) /\ getSubscriptionPlanById(planId) # {}) =>
          LET sid == Len(subscriptions) + 1
              pid == Len(payments) + 1
          IN /\ Len(subscriptions') = sid
             /\ SubSeq(subscriptions', 1, sid - 1) = subscriptions
             /\ subscriptions'[sid].userId = u
             /\ subscriptions'[sid].isActive = FALSE
             /\ Len(payments') = pid
             /\ SubSeq(payments', 1, pid - 1) = payments
             /\ payments'[pid].status = "pending"
             /\ payments'[pid].subscriptionId = sid
             /\ payments'[pid].userId = u
             /\ users' = users]_vars

\* A user who is VIP has just checked out a second subscription: it is
\* inactive, its payment is pending, and the user is still VIP.
C2_Witness ==
  /\ http.status = 201
  /\ ~subscriptions[http.subscription].isActive
  /\ payments[http.payment].status = "pending"
  /\ payments[http.payment].subscriptionId = http.subscription
  /\ users[subscriptions[http.subscription].userId].isVip

\* C3: cancelSubscription on an existing subscription leaves it inactive
\* with autoRenew off and its user not VIP, whatever the end date is.
C3_CancelRevokesImmediately ==
  [][\A u \in Users, s \in IdInputs :
       (CancelSubscription(u, s) /\ s \in DOMAIN subscriptions) =>
          /\ subscriptions'[s].isActive = FALSE
          /\ subscriptions'[s].autoRenew = FALSE
          /\ users'[subscriptions[s].userId].isVip = FALSE]_vars

\* A subscription that was paid for has just been cancelled before its
\* end date.
C3_Witness ==
  /\ http.status = 200
  /\ "message" \in DOMAIN http
  /\ http.message = "Subscription canceled successfully"
  /\ \E s \in DOMAIN subscriptions :
       /\ subscriptions[s].endDate > now
       /\ ~subscriptions[s].isActive
       /\ ~subscriptions[s].autoRenew
       /\ ~users[subscriptions[s].userId].isVip
       /\ \E p \in DOMAIN payments :
            payments[p].subscriptionId = s /\ payments[p].status = "completed"

\* C4: every user has at most one active subscription.
C4_AtMostOneActive ==
  \A u \in Users : Cardinality(getUserSubscription(Db, u)) <= 1

\* C5: a user gets the video URL of exclusive content exactly when one of
\* the user's subscriptions was activated by a completed payment, has not
\* been cancelled since, and ends in the future.
C5_EntitledIffLiveSubscription ==
  \A u \in Users :
    (\E id \in DOMAIN content :
        /\ content[id].isExclusive
        /\ OrNull(content[id].videoUrl) # Null
        /\ contentResponse(id, u).body.videoUrl # Null)
    <=>
    (\E s \in DOMAIN subscriptions :
        /\ subscriptions[s].userId = u
        /\ subscriptions[s].isActive
        /\ subscriptions[s].endDate > now
        /\ \E p \in DOMAIN payments :
             payments[p].subscriptionId = s /\ payments[p].status = "completed")

\* C6: the content read and the VIP-only route treat a viewer as entitled
\* exactly when the viewer is VIP and the VIP period has no end or ends
\* after the current time.
C6_EntitlementChecksExpiry ==
  [][\A v \in Viewers :
       LET entitled == /\ v \in Users
                       /\ users[v].isVip
                       /\ \A d \in users[v].vipExpiresAt : d > now
       IN /\ \A id \in ContentIdInputs :
               (GetContent(v, id) /\ content[id].isExclusive) =>
                  (("vipRequired" \notin DOMAIN http'.body) <=> entitled)
          /\ GetExclusiveContent(v) => ((http'.status = 200) <=> entitled)]_vars

\* C7: the single-content read returns the reference projection: the
\* catalog item with videoUrl nulled and vipRequired set when the item is
\* exclusive and the viewer is not entitled, the catalog item otherwise.
C7_GetContentIsProjection ==
  [][\A v \in Viewers, id \in ContentIdInputs :
       GetContent(v, id) =>
          LET c == mapContentFromDb(content[id])
              entitled == /\ v \in Users
                          /\ users[v].isVip
                          /\ \A d \in users[v].vipExpiresAt : d > now
          IN /\ http'.status = 200
             /\ http'.body =
                  IF c.isExclusive /\ ~entitled
                  THEN [id |-> c.id, title |-> c.title, type |-> c.type,
                        genres |-> c.genres, isExclusive |-> c.isExclusive,
                        videoUrl |-> Null, vipRequired |-> TRUE]
                  ELSE c]_vars

\* C8: no read returns the video URL of an exclusive item to a viewer who
\* is unauthenticated or not VIP.
C8_NoExclusiveUrlLeak ==
  [][\A v \in Viewers :
       (v \notin Users \/ ~users[v].isVip) =>
          /\ ((\E id \in ContentIdInputs : GetContent(v, id)) \/ GetFeatured(v)) =>
                ~(http'.body.isExclusive /\ http'.body.videoUrl # Null)
          /\ (\/ GetAllContent(v)
              \/ \E t \in TypeInputs : GetContentByType(v, t)
              \/ GetTrending(v)
              \/ \E q \in QueryInputs : Search(v, q)) =>
                \A c \in http'.items : ~(c.isExclusive /\ c.videoUrl # Null)]_vars

\* C9: right after a completePayment(p, tx) call, the same call again
\* leaves every payment, subscription and user as the first call left them.
C9_CompleteTwiceSameAsOnce ==
  [][\A u \in Users, p \in IdInputs, tx \in TxInputs :
       CompletePayment(u, p, tx) =>
          updatePaymentStatus(Db', p, "completed", tx) = Db']_vars

\* A completePayment call has just completed a payment and activated its
\* subscription, and repeating it would change nothing.
C9_Witness ==
  /\ http.status = 200
  /\ "payment" \in DOMAIN http
  /\ payments[http.payment].status = "completed"
  /\ subscriptions[payments[http.payment].subscriptionId].isActive
  /\ updatePaymentStatus(Db, http.payment, "completed",
                         payments[http.payment].transactionId) = Db

\* C10: completePayment on a payment that is already completed leaves the
\* referenced subscription's isActive and its user's VIP fields unchanged.
C10_CompletedPaymentNoActivation ==
  [][\A u \in Users, p \in IdInputs, tx \in TxInputs :
       (/\ CompletePayment(u, p, tx)
        /\ p \in DOMAIN payments
        /\ payments[p].status = "completed") =>
          LET sid == payments[p].subscriptionId
              owner == subscriptions[sid].userId
          IN /\ subscriptions'[sid].isActive = subscriptions[sid].isActive
             /\ users'[owner] = users[owner]]_vars

\* C11: every change of a payment's status or transaction id is one of
\* pending -> completed, pending -> failed, completed -> refunded.
C11_PaymentTransitions ==
  [][\A p \in DOMAIN payments :
       (\/ payments'[p].status # payments[p].status
        \/ payments'[p].transactionId # payments[p].transactionId) =>
          <<payments[p].status, payments'[p].status>> \in
             {<<"pending", "completed">>, <<"pending", "failed">>,
              <<"completed", "refunded">>}]_vars

\* C12: a failed or refunded payment never changes again, and a
\* completePayment call on it neither activates its subscription nor makes
\* its user VIP.
C12_TerminalPaymentImmutable ==
  [][\A p \in DOMAIN payments :
       payments[p].status \in {"failed", "refunded"} =>
          /\ payments'[p] = payments[p]
          /\ \A u \in Users, tx \in TxInputs :
               CompletePayment(u, p, tx) =>
                  LET sid == payments[p].subscriptionId
                      owner == subscriptions[sid].userId
                  IN /\ subscriptions'[sid].isActive = subscriptions[sid].isActive
                     /\ users'[owner].isVip = users[owner].isVip]_vars

\* C13: when the process stops inside completePayment, the stored state
\* has neither the subscription active with its user not VIP, nor the user
\* made VIP by this call with the subscription inactive.
C13_ActivationAtomicOnCrash ==
  [][\A u \in Users, p \in IdInputs, tx \in TxInputs, k \in CrashPoints :
       (CompletePaymentCrash(u, p, tx, k) /\ p \in DOMAIN payments) =>
          LET sid == payments[p].subscriptionId
              owner == subscriptions[sid].userId
          IN /\ ~(subscriptions'[sid].isActive /\ ~users'[owner].isVip)
             /\ ~(users'[owner].isVip /\ ~users[owner].isVip
                  /\ ~subscriptions'[sid].isActive)]_vars

\* C14: in every reachable state, concurrent addFavorite requests included,
\* the favorites table holds at most one row for each (userId, contentId).
C14_OneFavoritePerPair ==
  \A u \in Users, c \in FavoriteContentInputs :
     BagCardinality([f \in favoriteRows(favorites, u, c) |-> favorites[f]]) <= 1

\* A request passed the select of addToFavorites with no row found, and
\* another request has inserted the row of its pair since: its own insert
\* is still to come.
C14_Witness ==
  \E r \in Requests :
     /\ calls[r].pc = "addToFavorites"
     /\ ~calls[r].existingFavorite
     /\ favoriteRows(favorites, calls[r].userId, calls[r].contentId) # {}

\* C17: GET /api/favorites of a user answers exactly the catalog items whose
\* id is in a favorite of that user, each of them once; an id with no
\* content row and a pair that was removed contribute nothing.
C17_ListIsFavoritesOfUser ==
  [][\A u \in Users :
       ListFavorites(u) =>
          LET ids == {c \in DOMAIN content :
                        \E f \in BagToSet(favorites) :
                           f.userId = u /\ f.contentId = c}
          IN /\ http'.status = 200
             /\ BagToSet(http'.items) = {mapContentFromDb(content[c]) : c \in ids}
             /\ \A x \in BagToSet(http'.items) : CopiesIn(x, http'.items) = 1]_vars

\* A list was answered with some item while the table holds a favorite (of
\* another user, or added since) that is not in the answer.
C17_Witness ==
  /\ "items" \in DOMAIN http
  /\ http.items # EmptyBag
  /\ \E f \in BagToSet(favorites) :
        mapContentFromDb(content[f.contentId]) \notin BagToSet(http.items)

\* C18: DELETE /api/favorites/:id with a numeric id answers 200; when the
\* user has no favorite of that content the table is unchanged, otherwise
\* the rows of that pair are deleted and every other row stays.
C18_RemoveDeletesThatPairOnly ==
  [][\A u \in Users, id \in IdParamInputs :
       (RemoveFavorite(u, id) /\ parseInt(id) # NaN) =>
          LET pair == favoriteRows(favorites, u, parseInt(id))
          IN /\ http' = [status |-> 200, message |-> "Removed from favorites"]
             /\ pair = {} => favorites' = favorites
             /\ favoriteRows(favorites', u, parseInt(id)) = {}
             /\ BagToSet(favorites') = BagToSet(favorites) \ pair
             /\ \A f \in BagToSet(favorites') : favorites'[f] = favorites[f]]_vars

\* A removal was answered while other favorites are in the table.
C18_Witness ==
  /\ http = [status |-> 200, message |-> "Removed from favorites"]
  /\ favorites # EmptyBag

\* C15: in every reachable state, two concurrent saveProgress requests for
\* a pair with no record included, the progress table holds at most one row
\* for each (userId, contentId).
C15_OneProgressPerPair ==
  \A u \in Users, c \in ProgressContentInputs :
     Cardinality(progressRows(progress, u, c)) <= 1

\* C16: a saveProgress(u, c, v) request that overlaps no other leaves
\* exactly one row for (u, c), and that row's progress is v: the last of a
\* series of requests decides the value, whether it is larger or smaller.
C16_LastSaveWins ==
  [][\A u \in Users, c \in ProgressContentInputs, v \in ProgressInputs :
       (SaveProgress(u, c, v) /\ c \in DOMAIN content) =>
          /\ Cardinality(progressRows(progress', u, c)) = 1
          /\ \A i \in progressRows(progress', u, c) : progress'[i].progress = v]_vars

\* The last answer is a row with value 40 that is older than another row
\* and has a later timestamp: a request found it and wrote it again.
C16_Witness ==
  \E i, j \in DOMAIN progress :
     /\ i < j
     /\ progress[i].timestamp > progress[j].timestamp
     /\ progress[i].progress = 40
     /\ http = [status |-> 200, body |-> progress[i]]

\* C19: cancelSubscription with an id of no subscription is answered as a
\* not-found error, not as a success, and changes no subscription and no
\* user.
C19_CancelUnknownIsNotFound ==
  [][\A u \in Users, s \in IdInputs :
       (CancelSubscription(u, s) /\ s \notin DOMAIN subscriptions) =>
          /\ http'.status = 404
          /\ UNCHANGED <<users, subscriptions>>]_vars

\* C20: completePayment with an id of no payment is answered as a
\* payment-not-found error and changes no payment, no subscription and no
\* user.
C20_CompleteUnknownIsNotFound ==
  [][\A u \in Users, p \in IdInputs, tx \in TxInputs :
       (CompletePayment(u, p, tx) /\ p \notin DOMAIN payments) =>
          /\ http'.status = 404
          /\ UNCHANGED <<users, subscriptions, payments>>]_vars

\* C21: subscribe with a plan id that is in no row of the plan catalog is
\* answered as plan-not-found and creates no subscription and no payment.
C21_SubscribeUnknownPlan ==
  [][\A u \in Users, planId \in PlanIdInputs, pm \in PaymentMethodInputs,
        ar \in BOOLEAN :
       (Subscribe(u, planId, pm, ar) /\ planId \notin DOMAIN subscriptionPlans) =>
          /\ http' = [status |-> 404, message |-> "Subscription plan not found"]
          /\ UNCHANGED <<users, subscriptions, payments>>]_vars

\* A subscribe with an unknown plan was answered after an earlier subscribe
\* had created a subscription and its payment.
C21_Witness ==
  /\ http = [status |-> 404, message |-> "Subscription plan not found"]
  /\ Len(subscriptions) = 1
  /\ Len(payments) = 1

\* C22: saveProgress for a content row with a value outside 0..100 is
\* rejected as a validation error and stores nothing, so every stored row
\* has 0 <= progress <= 100.
C22_ProgressRangeValidated ==
  [][\A u \in Users, c \in ProgressContentInputs, v \in ProgressInputs :
       (SaveProgress(u, c, v) /\ c \in DOMAIN content /\ (v < 0 \/ v > 100)) =>
          /\ http'.status = 400
          /\ UNCHANGED progress
          /\ \A i \in DOMAIN progress' :
                progress'[i].progress >= 0 /\ progress'[i].progress <= 100]_vars

\* C23: setting the status of a payment of an active subscription to
\* refunded leaves that subscription's isActive and autoRenew and its
\* user's isVip and vipExpiresAt as they were.
C23_RefundKeepsAccess ==
  [][\A p \in IdInputs :
       (/\ RefundPayment(p)
        /\ p \in DOMAIN payments
        /\ subscriptions[payments[p].subscriptionId].isActive) =>
          LET sid == payments[p].subscriptionId
              owner == subscriptions[sid].userId
          IN /\ payments'[p].status = "refunded"
             /\ subscriptions'[sid].isActive = subscriptions[sid].isActive
             /\ subscriptions'[sid].autoRenew = subscriptions[sid].autoRenew
             /\ users'[owner] = users[owner]]_vars

\* A refunded payment whose subscription is active and whose user is VIP.
C23_Witness ==
  \E p \in DOMAIN payments :
     /\ payments[p].status = "refunded"
     /\ subscriptions[payments[p].subscriptionId].isActive
     /\ users[payments[p].userId].isVip

\* C24: an add whose pair is in the table when its write runs is a
\* successful no-op: it answers success and leaves the table as it was,
\* also when another add inserted the pair after this add's existence check.
C24_AddExistingIsNoOp ==
  [][\A r \in Requests :
       (/\ AddFavoriteInsert(r)
        /\ favoriteRows(favorites, calls[r].userId, calls[r].contentId) # {}) =>
          /\ http' = [status |-> 201, message |-> "Added to favorites"]
          /\ favorites' = favorites]_vars

\* C25: for a user with a single subscription S, once a completePayment of
\* S's payment and a cancelSubscription of S have both run to their end, in
\* whatever order their statements ran, S is active and the user VIP, or S
\* is inactive and the user not VIP.
C25_CompleteCancelConsistent ==
  \A u \in Users :
     LET subs == {s \in DOMAIN subscriptions : subscriptions[s].userId = u}
     IN (/\ \A r \in Requests : calls[r].pc = "idle"
         /\ Cardinality(subs) = 1) =>
           \A s \in subs : subscriptions[s].isActive = users[u].isVip

\* C26: after any series of subscribe, completePayment and cancelSubscription
\* requests that do not overlap, a user is VIP exactly when one of the
\* user's subscriptions is active; cancelling one subscription leaves the
\* user VIP while another one is active.
C26_VipIffActiveSubscription ==
  \A u \in Users : users[u].isVip <=> getUserSubscription(Db, u) # {}

\* C27: in every reachable state an active subscription has a payment with
\* status completed that references it, and a VIP user has a completed
\* payment.
C27_ActiveHasCompletedPayment ==
  /\ \A s \in DOMAIN subscriptions :
        subscriptions[s].isActive =>
           \E p \in DOMAIN payments :
              payments[p].subscriptionId = s /\ payments[p].status = "completed"
  /\ \A u \in Users :
        users[u].isVip =>
           \E p \in DOMAIN payments :
              payments[p].userId = u /\ payments[p].status = "completed"

\* C27, amended: in every reachable state an active subscription has a
\* payment that references it and has been completed (it carries the
\* transaction id of its confirmation; its status is completed unless it
\* was changed afterwards, as by a refund), and a VIP user has such a
\* payment: access is never granted before a payment is confirmed.
C27_ActiveHasConfirmedPayment ==
  /\ \A s \in DOMAIN subscriptions :
        subscriptions[s].isActive =>
           \E p \in DOMAIN payments :
              /\ payments[p].subscriptionId = s
              /\ payments[p].status # "pending"
              /\ payments[p].transactionId # Null
  /\ \A u \in Users :
        users[u].isVip =>
           \E p \in DOMAIN payments :
              /\ payments[p].userId = u
              /\ payments[p].status # "pending"
              /\ payments[p].transactionId # Null

\* A user is VIP with an active subscription whose payment was refunded,
\* next to a subscription that is inactive and still unpaid.
C27_Witness ==
  \E s, t \in DOMAIN subscriptions, p, q \in DOMAIN payments :
     /\ subscriptions[s].isActive /\ users[subscriptions[s].userId].isVip
     /\ payments[p].subscriptionId = s /\ payments[p].status = "refunded"
     /\ ~subscriptions[t].isActive
     /\ payments[q].subscriptionId = t /\ payments[q].status = "pending"

\* C28: a cancelSubscription request of user u changes no subscription of
\* another user and no other user's VIP fields.
C28_CancelOnlyOwn ==
  [][\A u \in Users, s \in IdInputs :
       CancelSubscription(u, s) =>
          /\ \A t \in DOMAIN subscriptions :
                subscriptions[t].userId # u => subscriptions'[t] = subscriptions[t]
          /\ \A v \in Users \ {u} : users'[v] = users[v]]_vars

\* C29: a completePayment request of user u changes no payment of another
\* user, activates no subscription of another user and grants VIP to no
\* other user.
C29_CompleteOnlyOwn ==
  [][\A u \in Users, p \in IdInputs, tx \in TxInputs :
       CompletePayment(u, p, tx) =>
          /\ \A q \in DOMAIN payments :
                payments[q].userId # u => payments'[q] = payments[q]
          /\ \A t \in DOMAIN subscriptions :
                subscriptions[t].userId # u => subscriptions'[t] = subscriptions[t]
          /\ \A v \in Users \ {u} : users'[v] = users[v]]_vars

\* C30: once a payment is completed with a recorded transaction id, that id
\* stays: a later completePayment with another transaction id does not
\* replace it.
C30_TransactionIdKept ==
  [][\A p \in DOMAIN payments :
       (payments[p].status = "completed" /\ payments[p].transactionId # Null) =>
          payments'[p].transactionId = payments[p].transactionId]_vars

====
